---- MODULE Spec2Model ----
(***************************************************************************)
(* Model of the Mermaid rendering orchestration layer:                     *)
(*   tools/mermaid_renderer.py  render_mermaid_to_file                     *)
(*   server/app.py              mermaid_stdio_tool_logic (file delivery)   *)
(*                              mermaid_sse_tool_logic   (stream delivery) *)
(* A call is one invocation of a tool handler, or a direct invocation of   *)
(* render_mermaid_to_file.  Strings that the code inspects (file names,    *)
(* paths) are sequences of one-character strings; file contents are        *)
(* sequences too (bytes as integers, text as characters).                  *)
(***************************************************************************)
EXTENDS Integers, Sequences, FiniteSets, TLC

\* ---------------------------------------------------------------- bounds
NumCalls == 2          \* call slots (calls that can be in flight together)
NumTmpNames == 2       \* names tempfile can mint per suffix

Calls == 1..NumCalls

\* ------------------------------------------------------------ Python values
NONE == "None"                     \* Python None for optional strings
NoPath == <<>>                     \* "" (app.py:79) / an unassigned path

DEFAULT_MMDC_THEME == "default"

Truthy(s) == s # NONE /\ s # ""

\* str.lower() on the characters the model uses
Lower(ch) ==
    CASE ch = "P" -> "p"
      [] ch = "N" -> "n"
      [] ch = "G" -> "g"
      [] ch = "A" -> "a"
      [] OTHER -> ch

LowerStr(s) == [i \in 1..Len(s) |-> Lower(s[i])]

EndsWith(s, suf) ==
    /\ Len(s) >= Len(suf)
    /\ SubSeq(s, Len(s) - Len(suf) + 1, Len(s)) = suf

PngSuffix == <<".", "p", "n", "g">>
MmdSuffix == <<".", "m", "m", "d">>

\* mermaid_renderer.py:45-46
NormalizeName(name) ==
    IF ~EndsWith(LowerStr(name), PngSuffix) THEN name \o PngSuffix ELSE name

\* os.path.abspath on the absolute paths of the model: normpath strips a
\* trailing separator (the root itself is kept)
AbsPath(p) ==
    IF Len(p) > 1 /\ p[Len(p)] = "/" THEN SubSeq(p, 1, Len(p) - 1) ELSE p

\* os.path.join(a, b) / pathlib's a / b
PathJoin(a, b) ==
    IF Len(b) > 0 /\ b[1] = "/" THEN b
    ELSE IF Len(a) > 0 /\ a[Len(a)] = "/" THEN a \o b
    ELSE a \o <<"/">> \o b

\* ------------------------------------------------------------- file system
\* Directories and regular files that exist before any call and that no call
\* changes; every other file lives in the variable fs (path -> content).
StaticDirs == { <<"/", "o">>, <<"/", "t">> }
StaticFiles == { <<"/", "f">> }
TmpDir == <<"/", "t">>

Exists(p, f) == p \in StaticDirs \/ p \in StaticFiles \/ p \in DOMAIN f
IsDir(p, f) == p \in StaticDirs

Digits == <<"1", "2", "3", "4", "5", "6", "7", "8", "9">>

\* the names tempfile.NamedTemporaryFile can produce for a suffix
TmpPaths(suffix) ==
    { TmpDir \o <<"/", Digits[i]>> \o suffix : i \in 1..NumTmpNames }

\* mkstemp opens with O_CREAT|O_EXCL: only a name that does not exist is taken
MutFreshTmp(suffix, f) == TmpPaths(suffix)
FreshTmp(suffix, f) == { p \in TmpPaths(suffix) : ~Exists(p, f) }

RemoveFile(p, f) == [q \in DOMAIN f \ {p} |-> f[q]]
WriteFile(p, content, f) == [q \in DOMAIN f \cup {p} |-> IF q = p THEN content ELSE f[q]]

\* ------------------------------------------------------------------ base64
B64Alphabet ==
    << "A","B","C","D","E","F","G","H","I","J","K","L","M","N","O","P",
       "Q","R","S","T","U","V","W","X","Y","Z","a","b","c","d","e","f",
       "g","h","i","j","k","l","m","n","o","p","q","r","s","t","u","v",
       "w","x","y","z","0","1","2","3","4","5","6","7","8","9","+","/" >>

B64Char(n) == B64Alphabet[(n % 64) + 1]

RECURSIVE B64Encode(_)
B64Encode(bytes) ==
    IF Len(bytes) = 0 THEN <<>>
    ELSE IF Len(bytes) = 1 THEN
        LET n == bytes[1] * 65536
        IN  << B64Char(n \div 262144), B64Char(n \div 4096), "=", "=" >>
    ELSE IF Len(bytes) = 2 THEN
        LET n == bytes[1] * 65536 + bytes[2] * 256
        IN  << B64Char(n \div 262144), B64Char(n \div 4096), B64Char(n \div 64), "=" >>
    ELSE
        LET n == bytes[1] * 65536 + bytes[2] * 256 + bytes[3]
        IN  << B64Char(n \div 262144), B64Char(n \div 4096), B64Char(n \div 64), B64Char(n) >>
            \o B64Encode(SubSeq(bytes, 4, Len(bytes)))

\* -------------------------------------------------------------- exceptions
\* An exception is its class, a tag naming the message text, and the values
\* the message (or the exception object) carries.
Exc(cls, tag, path, rc, so, se, inner) ==
    [cls |-> cls, tag |-> tag, path |-> path, rc |-> rc,
     stdout |-> so, stderr |-> se, inner |-> inner]

NoExc == Exc("", "", NoPath, 0, "", "", "")
SimpleExc(cls, tag) == Exc(cls, tag, NoPath, 0, "", "", "")

\* isinstance(e, base) over the classes the model raises
IsInstance(cls, base) ==
    \/ cls = base
    \/ base = "Exception"
    \/ base = "OSError" /\ cls = "FileNotFoundError"

\* ---------------------------------------------------------------- outcomes
\* What a frame hands to its caller: a returned value or a raised exception.
Outcome(type, path, mime, data, exc) ==
    [type |-> type, path |-> path, mime |-> mime, data |-> data, exc |-> exc]

NoOutcome == Outcome("none", NoPath, "", <<>>, NoExc)
ReturnPath(p) == Outcome("return", p, "", <<>>, NoExc)
\* types.ImageContent(type="image", data=..., mimeType="image/png")
ImageContent(data) == Outcome("return", NoPath, "image/png", data, NoExc)
Raise(e) == Outcome("raise", NoPath, "", <<>>, e)

\* ------------------------------------------------- the call of the renderer
\* def render_mermaid_to_file(code, output_dir, name, theme=None,
\*                            background_color=None)
RenderParams == <<"code", "output_dir", "name", "theme", "background_color">>
RenderRequired == {"code", "output_dir", "name"}

ParamNames == { RenderParams[i] : i \in 1..Len(RenderParams) }

NoArgs ==
    [code |-> <<>>, output_dir |-> NoPath, name |-> NoPath,
     theme |-> NONE, background_color |-> NONE]

\* Python's binding of a call's arguments to the parameters: pos are the
\* positional values, kw maps keyword names to values.  The result is either
\* the bound arguments or the TypeError the call raises.
BindCall(pos, kw) ==
    LET byPos == { RenderParams[i] : i \in 1..Len(pos) }
        bound == byPos \cup DOMAIN kw
        Value(p) ==
            IF p \in DOMAIN kw THEN kw[p]
            ELSE IF \E i \in 1..Len(pos) : RenderParams[i] = p
                 THEN pos[CHOOSE i \in 1..Len(pos) : RenderParams[i] = p]
                 ELSE NONE
    IN  IF DOMAIN kw \ ParamNames # {}
            THEN [ok |-> FALSE, err |-> "unexpected_keyword", args |-> NoArgs]
        ELSE IF byPos \cap DOMAIN kw # {}
            THEN [ok |-> FALSE, err |-> "multiple_values", args |-> NoArgs]
        ELSE IF RenderRequired \ bound # {}
            THEN [ok |-> FALSE, err |-> "missing_argument", args |-> NoArgs]
        ELSE [ok |-> TRUE, err |-> "",
              args |-> [code |-> Value("code"), output_dir |-> Value("output_dir"),
                        name |-> Value("name"), theme |-> Value("theme"),
                        background_color |-> Value("background_color")]]

\* app.py:50-55 and app.py:85-90: render_mermaid_to_file(code, <path>,
\* theme=theme, backgroundColor=backgroundColor)
HandlerCallSite(code, path, theme, bg) ==
    BindCall(<<code, path>>, [k \in {"theme", "backgroundColor"} |->
                                 IF k = "theme" THEN theme ELSE bg])

\* ------------------------------------------------------- handlers' except
\* app.py:58-66 and app.py:103-111
HandlerExcept(kind, e) ==
    IF IsInstance(e.cls, "FileNotFoundError")
        THEN SimpleExc("ValueError", "mmdc_not_found")
    ELSE IF IsInstance(e.cls, "ValueError")
        THEN e
    ELSE Exc("ValueError", "unexpected_" \o kind, NoPath, 0, "", "", e.tag)

\* app.py:56-66: what the file handler does with the renderer's outcome
FileAfterRender(folder, name, ro) ==
    IF ro.type = "return"
        THEN ReturnPath(AbsPath(PathJoin(folder, name)))
        ELSE Raise(HandlerExcept("file", ro.exc))

\* app.py:91-111: what the stream handler does with the renderer's outcome,
\* before its finally clause
StreamAfterRender(tmpOut, ro, f) ==
    IF ro.type = "return"
        THEN IF tmpOut \in DOMAIN f
                THEN ImageContent(B64Encode(f[tmpOut]))
                ELSE Raise(HandlerExcept("stream",
                                         SimpleExc("FileNotFoundError", "open_missing")))
        ELSE Raise(HandlerExcept("stream", ro.exc))

\* app.py:113: the finally clause removes the ephemeral file when this holds
MutShouldRemoveOutput(tmpOut, f) == tmpOut # NoPath /\ ~Exists(tmpOut, f)
ShouldRemoveOutput(tmpOut, f) == tmpOut # NoPath /\ Exists(tmpOut, f)

\* ---------------------------------------------------------------- requests
Code == <<"g", "r", "a", "p", "h">>
PngBytes == <<137, 80, 78, 71>>

Folders == { <<"/", "o">>, <<"/", "f">>, <<"/", "m", "/">> }
Names == { <<"a">>, <<"a", ".", "p", "n", "g">>, <<"a", ".", "P", "N", "G">> }
Themes == { NONE, "dark" }
Colors == { NONE, "white" }

\* What the mmdc binary of the environment does when it is started
Mmdc(found, rc, writes) == [found |-> found, rc |-> rc, writes |-> writes]
MmdcMissing == Mmdc(FALSE, 0, FALSE)
MmdcOk == Mmdc(TRUE, 0, TRUE)
MmdcOkNoOutput == Mmdc(TRUE, 0, FALSE)
MmdcFail == Mmdc(TRUE, 1, FALSE)
MmdcFailPartial == Mmdc(TRUE, 1, TRUE)
MmdcBehaviours == { MmdcMissing, MmdcOk, MmdcOkNoOutput, MmdcFail, MmdcFailPartial }

MmdcStdout(m) == IF m.rc = 0 THEN "" ELSE "Generating single mermaid chart"
MmdcStderr(m) == IF m.rc = 0 THEN "" ELSE "Parse error on line 1"

Request(kind, folder, name, theme, bg, mmdc) ==
    [kind |-> kind, code |-> Code, folder |-> folder, name |-> name,
     theme |-> theme, bg |-> bg, mmdc |-> mmdc]

NoRequest == Request("", NoPath, NoPath, NONE, NONE, MmdcMissing)

Requests ==
    { Request(k, d, n, t, b, m) :
        k \in {"file", "render"}, d \in Folders, n \in Names,
        t \in Themes, b \in Colors, m \in MmdcBehaviours }
    \cup
    { Request("stream", NoPath, NoPath, t, b, m) :
        t \in Themes, b \in Colors, m \in MmdcBehaviours }

\* the requests of the concurrent specification: one destination, one name
ConcRequests ==
    { r \in Requests :
        /\ r.kind # "stream" => r.folder = <<"/", "o">> /\ r.name = <<"a">>
        /\ r.theme = NONE /\ r.bg = NONE
        /\ r.mmdc \in (IF r.kind = "render" THEN {MmdcOk, MmdcFail} ELSE {MmdcOk}) }

NoProc == [state |-> "none", rc |-> 0, stdout |-> "", stderr |-> ""]

\* ------------------------------------------------------------------- state
VARIABLES
    pc,        \* where each call is
    req,       \* the arguments of the call and the mmdc it will meet
    rargs,     \* the arguments bound in the render_mermaid_to_file frame
    tmp_in,    \* tmp_input_file_path (mermaid_renderer.py:55)
    tmp_out,   \* tmp_output_path (app.py:79, 82)
    proc,      \* the result of subprocess.run
    pend,      \* the stream handler's result while its finally clause runs
    out,       \* what the call handed to its caller
    fs,        \* the files the calls and the renderer create: path -> content
    launched,  \* the commands each call has handed to subprocess.run
    lost       \* the temp paths of each call that something else removed

vars == <<pc, req, rargs, tmp_in, tmp_out, proc, pend, out, fs, launched, lost>>

Init ==
    /\ pc = [c \in Calls |-> "idle"]
    /\ req = [c \in Calls |-> NoRequest]
    /\ rargs = [c \in Calls |-> NoArgs]
    /\ tmp_in = [c \in Calls |-> NoPath]
    /\ tmp_out = [c \in Calls |-> NoPath]
    /\ proc = [c \in Calls |-> NoProc]
    /\ pend = [c \in Calls |-> NoOutcome]
    /\ out = [c \in Calls |-> NoOutcome]
    /\ fs = <<>>
    /\ launched = [c \in Calls |-> <<>>]
    /\ lost = [c \in Calls |-> {}]

\* ------------------------------------------------------------ views of state
Done(c) == pc[c] = "done"

Handler(c) == req[c].kind \in {"file", "stream"}

\* The temp paths call c has created and not yet released: the source file
\* from its creation to the finally clause of render_mermaid_to_file, the
\* ephemeral output from its creation to the finally clause of the handler.
Owned(c) ==
    (IF pc[c] \in {"r_write", "r_run", "r_wait", "r_resume"}
        THEN {tmp_in[c]} ELSE {})
    \cup
    (IF tmp_out[c] # NoPath /\ pc[c] \notin {"idle", "done"}
        THEN {tmp_out[c]} ELSE {})

\* the os.remove of a cleanup step failed
RemoveFailed(c) == out[c].type = "raise" /\ out[c].exc.tag = "remove_failed"

\* ------------------------------------------------------------ the event loop
\* mermaid_renderer.py:72: subprocess.run is awaited through
\* asyncio.to_thread, so a coroutine in state p that waits for its renderer
\* does not hold the event loop.
MutLoopBlockedBy(p) == p = "r_wait"
LoopBlockedBy(p) == FALSE

\* the event loop can run a step of call c's coroutine
LoopFree(c) == \A d \in Calls \ {c} : ~LoopBlockedBy(pc[d])

\* mermaid_renderer.py:37-78: the order of the statements of
\* render_mermaid_to_file up to the start of the renderer
MutRenderSteps == <<"r_alloc", "r_validate", "r_write", "r_run">>
RenderSteps == <<"r_validate", "r_alloc", "r_write", "r_run">>

RenderEntry == RenderSteps[1]

After(step) ==
    LET i == CHOOSE j \in 1..Len(RenderSteps) : RenderSteps[j] = step
    IN  RenderSteps[i + 1]

\* os.remove(p): a missing path raises FileNotFoundError; an existing one is
\* removed unless the operating system refuses (ok = FALSE)
OsRemove(p, f, ok) ==
    IF p \notin DOMAIN f
        THEN [fs |-> f, exc |-> SimpleExc("FileNotFoundError", "remove_missing")]
    ELSE IF ok
        THEN [fs |-> RemoveFile(p, f), exc |-> NoExc]
    ELSE [fs |-> f, exc |-> SimpleExc("OSError", "remove_failed")]

\* ----------------------------------------------------------------- actions
\* A caller issues a call with arguments drawn from R; the event loop starts
\* the handler's coroutine.
Start(c, R) ==
    /\ pc[c] = "idle"
    /\ LoopFree(c)
    /\ \E r \in R :
        /\ req' = [req EXCEPT ![c] = r]
        /\ pc' = [pc EXCEPT ![c] =
                    CASE r.kind = "file" -> "f_call"
                      [] r.kind = "stream" -> "s_alloc"
                      [] OTHER -> RenderEntry]
        /\ rargs' = [rargs EXCEPT ![c] =
                    IF r.kind = "render"
                        THEN [code |-> r.code, output_dir |-> r.folder, name |-> r.name,
                              theme |-> r.theme, background_color |-> r.bg]
                        ELSE NoArgs]
    /\ UNCHANGED <<tmp_in, tmp_out, proc, pend, out, fs, launched, lost>>

\* The render_mermaid_to_file frame of call c ends with outcome ro, the file
\* system being f: control goes back to whoever called it.  A direct caller
\* receives ro; the file handler finishes (app.py:56-66); the stream handler
\* goes on to its finally clause (app.py:91-115).
Deliver(c, ro, f) ==
    /\ pc' = [pc EXCEPT ![c] = IF req[c].kind = "stream" THEN "s_finally" ELSE "done"]
    /\ out' = [out EXCEPT ![c] =
                CASE req[c].kind = "render" -> ro
                  [] req[c].kind = "file" ->
                        FileAfterRender(req[c].folder, req[c].name, ro)
                  [] OTHER -> @]
    /\ pend' = [pend EXCEPT ![c] =
                IF req[c].kind = "stream"
                    THEN StreamAfterRender(tmp_out[c], ro, f)
                    ELSE @]

\* app.py:47-55: the file handler calls render_mermaid_to_file
FileCall(c) ==
    /\ pc[c] = "f_call"
    /\ LoopFree(c)
    /\ LET b == HandlerCallSite(req[c].code,
                                AbsPath(PathJoin(req[c].folder, req[c].name)),
                                req[c].theme, req[c].bg)
       IN  IF b.ok
            THEN /\ rargs' = [rargs EXCEPT ![c] = b.args]
                 /\ pc' = [pc EXCEPT ![c] = RenderEntry]
                 /\ UNCHANGED <<out, pend>>
            ELSE /\ Deliver(c, Raise(SimpleExc("TypeError", b.err)), fs)
                 /\ UNCHANGED rargs
    /\ UNCHANGED <<req, tmp_in, tmp_out, proc, fs, launched, lost>>

\* app.py:79-82: the stream handler allocates its ephemeral output file
StreamAlloc(c) ==
    /\ pc[c] = "s_alloc"
    /\ LoopFree(c)
    /\ \/ \E p \in FreshTmp(PngSuffix, fs) :
            /\ tmp_out' = [tmp_out EXCEPT ![c] = p]
            /\ fs' = WriteFile(p, <<>>, fs)
            /\ pc' = [pc EXCEPT ![c] = "s_call"]
            /\ UNCHANGED pend
       \/ \E e \in { SimpleExc("OSError", "tmp_create_failed"),
                     SimpleExc("FileNotFoundError", "tmpdir_missing") } :
            /\ pend' = [pend EXCEPT ![c] = Raise(HandlerExcept("stream", e))]
            /\ pc' = [pc EXCEPT ![c] = "s_finally"]
            /\ UNCHANGED <<tmp_out, fs>>
    /\ UNCHANGED <<req, rargs, tmp_in, proc, out, launched, lost>>

\* app.py:85-90: the stream handler calls render_mermaid_to_file
StreamCall(c) ==
    /\ pc[c] = "s_call"
    /\ LoopFree(c)
    /\ LET b == HandlerCallSite(req[c].code, tmp_out[c], req[c].theme, req[c].bg)
       IN  IF b.ok
            THEN /\ rargs' = [rargs EXCEPT ![c] = b.args]
                 /\ pc' = [pc EXCEPT ![c] = RenderEntry]
                 /\ UNCHANGED <<out, pend>>
            ELSE /\ Deliver(c, Raise(SimpleExc("TypeError", b.err)), fs)
                 /\ UNCHANGED rargs
    /\ UNCHANGED <<req, tmp_in, tmp_out, proc, fs, launched, lost>>

\* app.py:112-115: the stream handler's finally clause; an error of
\* os.remove replaces the handler's result
StreamFinally(c) ==
    /\ pc[c] = "s_finally"
    /\ LoopFree(c)
    /\ \E ok \in BOOLEAN :
        IF ShouldRemoveOutput(tmp_out[c], fs)
            THEN LET r == OsRemove(tmp_out[c], fs, ok)
                 IN  /\ fs' = r.fs
                     /\ out' = [out EXCEPT ![c] =
                                 IF r.exc = NoExc THEN pend[c] ELSE Raise(r.exc)]
            ELSE /\ fs' = fs
                 /\ out' = [out EXCEPT ![c] = pend[c]]
    /\ pc' = [pc EXCEPT ![c] = "done"]
    /\ UNCHANGED <<req, rargs, tmp_in, tmp_out, proc, pend, launched, lost>>

\* mermaid_renderer.py:49
OutputPath(a) == PathJoin(AbsPath(a.output_dir), NormalizeName(a.name))

\* mermaid_renderer.py:52
CurrentTheme(a) == IF Truthy(a.theme) THEN a.theme ELSE DEFAULT_MMDC_THEME

\* mermaid_renderer.py:59-67
Cmd(a, tmpIn) ==
    << <<"mmdc">>, <<"-i">>, tmpIn, <<"-o">>, OutputPath(a), <<"-t">>, <<CurrentTheme(a)>> >>
    \o (IF Truthy(a.background_color) THEN << <<"-b">>, <<a.background_color>> >> ELSE <<>>)

\* mermaid_renderer.py:37-42
RenderValidate(c) ==
    /\ pc[c] = "r_validate"
    /\ LoopFree(c)
    /\ LET dir == AbsPath(rargs[c].output_dir)
       IN  IF ~Exists(dir, fs)
            THEN Deliver(c, Raise(Exc("ValueError", "dir_missing", dir, 0, "", "", "")), fs)
           ELSE IF ~IsDir(dir, fs)
            THEN Deliver(c, Raise(Exc("ValueError", "not_dir", dir, 0, "", "", "")), fs)
           ELSE /\ pc' = [pc EXCEPT ![c] = After("r_validate")]
                /\ UNCHANGED <<out, pend>>
    /\ UNCHANGED <<req, rargs, tmp_in, tmp_out, proc, fs, launched, lost>>

\* mermaid_renderer.py:54-55: the diagram-source temp file is created
RenderAlloc(c) ==
    /\ pc[c] = "r_alloc"
    /\ LoopFree(c)
    /\ \/ \E p \in FreshTmp(MmdSuffix, fs) :
            /\ tmp_in' = [tmp_in EXCEPT ![c] = p]
            /\ fs' = WriteFile(p, <<>>, fs)
            /\ pc' = [pc EXCEPT ![c] = After("r_alloc")]
            /\ UNCHANGED <<out, pend>>
       \/ \E e \in { SimpleExc("OSError", "tmp_create_failed"),
                     SimpleExc("FileNotFoundError", "tmpdir_missing") } :
            /\ Deliver(c, Raise(e), fs)
            /\ UNCHANGED <<tmp_in, fs>>
    /\ UNCHANGED <<req, rargs, tmp_out, proc, launched, lost>>

\* mermaid_renderer.py:56-57: what the temp file holds when the with block is
\* left: write() then flush(), and the exit of the block closes the file
MutWrittenSource(code) == <<>>
WrittenSource(code) == code

\* mermaid_renderer.py:56-57: the source is written and flushed, and the with
\* block closes the file (delete=False keeps it); a failing write raises out
\* of the with block, before the try statement of line 71
RenderWrite(c) ==
    /\ pc[c] = "r_write"
    /\ LoopFree(c)
    /\ \/ /\ fs' = WriteFile(tmp_in[c], WrittenSource(rargs[c].code), fs)
          /\ pc' = [pc EXCEPT ![c] = After("r_write")]
          /\ UNCHANGED <<out, pend>>
       \/ /\ Deliver(c, Raise(SimpleExc("OSError", "write_failed")), fs)
          /\ UNCHANGED fs
    /\ UNCHANGED <<req, rargs, tmp_in, tmp_out, proc, launched, lost>>

\* mermaid_renderer.py:72-78: after a run of the renderer the coroutine
\* resumes in the except/finally clauses; nothing starts the renderer again
MutResumePc(p) == IF p.state = "exited" /\ p.rc # 0 THEN "r_run" ELSE "r_resume"
ResumePc(p) == "r_resume"

\* mermaid_renderer.py:59-78: the command is built and subprocess.run is
\* handed to a worker thread; the coroutine is suspended
RenderRun(c) ==
    /\ pc[c] = "r_run"
    /\ LoopFree(c)
    /\ pc' = [pc EXCEPT ![c] = "r_wait"]
    /\ proc' = [proc EXCEPT ![c] = [NoProc EXCEPT !.state = "running"]]
    /\ launched' = [launched EXCEPT ![c] = Append(@, Cmd(rargs[c], tmp_in[c]))]
    /\ UNCHANGED <<req, rargs, tmp_in, tmp_out, pend, out, fs, lost>>

\* The worker thread runs subprocess.run(cmd, check=True, capture_output=True):
\* the binary is missing, or the process runs, may write the -o path, exits
MmdcRun(c) ==
    /\ pc[c] = "r_wait"
    /\ LET m == req[c].mmdc
           p == IF m.found
                    THEN [state |-> "exited", rc |-> m.rc,
                          stdout |-> MmdcStdout(m), stderr |-> MmdcStderr(m)]
                    ELSE [NoProc EXCEPT !.state = "notfound"]
       IN  /\ proc' = [proc EXCEPT ![c] = p]
           /\ fs' = IF m.found /\ m.writes
                        THEN WriteFile(OutputPath(rargs[c]), PngBytes, fs)
                        ELSE fs
           /\ pc' = [pc EXCEPT ![c] = ResumePc(p)]
    /\ UNCHANGED <<req, rargs, tmp_in, tmp_out, pend, out, launched, lost>>

\* mermaid_renderer.py:79-95, 101: the outcome of the try statement before
\* its finally clause
RenderTry(p, outputPath) ==
    IF p.state = "notfound"
        THEN Raise(SimpleExc("FileNotFoundError", "mmdc_missing"))
    ELSE IF p.rc # 0
        THEN Raise(Exc("ValueError", "mmdc_failed", NoPath, p.rc, p.stdout, p.stderr, ""))
    ELSE ReturnPath(outputPath)

\* mermaid_renderer.py:97-98: the path the finally clause tests and removes
MutInputCleanupTarget(tmpIn, outputPath) == outputPath
InputCleanupTarget(tmpIn, outputPath) == tmpIn

\* mermaid_renderer.py:97: the finally clause removes the source file when
\* this holds
MutShouldRemoveInput(p, f) == TRUE
ShouldRemoveInput(p, f) == Exists(p, f)

\* mermaid_renderer.py:71-101: the coroutine resumes with the result of
\* subprocess.run; the finally clause removes the source file
RenderResume(c) ==
    /\ pc[c] = "r_resume"
    /\ LoopFree(c)
    /\ LET target == InputCleanupTarget(tmp_in[c], OutputPath(rargs[c]))
           base == RenderTry(proc[c], OutputPath(rargs[c]))
       IN  \E ok \in BOOLEAN :
            IF ShouldRemoveInput(target, fs)
                THEN LET r == OsRemove(target, fs, ok)
                     IN  /\ fs' = r.fs
                         /\ Deliver(c, IF r.exc = NoExc THEN base ELSE Raise(r.exc), r.fs)
                ELSE /\ fs' = fs
                     /\ Deliver(c, base, fs)
    /\ UNCHANGED <<req, rargs, tmp_in, tmp_out, proc, launched, lost>>

\* Something other than the call (the renderer, a cleaner of the temp
\* directory) removes a temp file of call c while its renderer runs or before
\* the stream handler calls the renderer.
ExternalRemove(c) ==
    /\ pc[c] \in {"r_wait", "s_call"}
    /\ \E p \in Owned(c) \cap DOMAIN fs :
        /\ fs' = RemoveFile(p, fs)
        /\ lost' = [lost EXCEPT ![c] = @ \cup {p}]
    /\ UNCHANGED <<pc, req, rargs, tmp_in, tmp_out, proc, pend, out, launched>>

\* The caller has taken the result; the slot serves the next call.
Reset(c) ==
    /\ pc[c] = "done"
    /\ pc' = [pc EXCEPT ![c] = "idle"]
    /\ req' = [req EXCEPT ![c] = NoRequest]
    /\ rargs' = [rargs EXCEPT ![c] = NoArgs]
    /\ tmp_in' = [tmp_in EXCEPT ![c] = NoPath]
    /\ tmp_out' = [tmp_out EXCEPT ![c] = NoPath]
    /\ proc' = [proc EXCEPT ![c] = NoProc]
    /\ pend' = [pend EXCEPT ![c] = NoOutcome]
    /\ out' = [out EXCEPT ![c] = NoOutcome]
    /\ launched' = [launched EXCEPT ![c] = <<>>]
    /\ lost' = [lost EXCEPT ![c] = {}]
    /\ UNCHANGED fs

Run(c) ==
    \/ FileCall(c)
    \/ StreamAlloc(c)
    \/ StreamCall(c)
    \/ StreamFinally(c)
    \/ RenderValidate(c)
    \/ RenderAlloc(c)
    \/ RenderWrite(c)
    \/ RenderRun(c)
    \/ MmdcRun(c)
    \/ RenderResume(c)

\* One call at a time, over every request: the first slot serves call after
\* call.
StartSeq(c) ==
    /\ c = 1
    /\ Start(c, Requests)

Next == \E c \in Calls : StartSeq(c) \/ Run(c) \/ ExternalRemove(c) \/ Reset(c)

Spec == Init /\ [][Next]_vars

\* Calls in flight together, as the event loop and the worker threads
\* interleave them; the calls are numbered in their order of arrival.
StartConc(c) ==
    /\ \A d \in Calls : d < c => pc[d] # "idle"
    /\ Start(c, ConcRequests)

NextConc == \E c \in Calls : StartConc(c) \/ Run(c)

SpecConc == Init /\ [][NextConc]_vars

\* The concurrent calls under a fair scheduler: a step of a call that stays
\* possible (a coroutine step, the exit of its renderer) is eventually taken.
FairConc == SpecConc /\ \A c \in Calls : WF_vars(Run(c))

\* A call, then the same call again once the first has finished.
StartFirst(c) ==
    /\ c = 1
    /\ Start(c, Requests)

StartAgain(c) ==
    /\ c = 2
    /\ pc[1] = "done"
    /\ Start(c, {req[1]})

NextTwice == \E c \in Calls : StartFirst(c) \/ StartAgain(c) \/ Run(c)

SpecTwice == Init /\ [][NextTwice]_vars

\* -------------------------------------------------------------------- claims

\* C1: a file-delivery call with an existing directory and a renderer that
\* exits zero returns <folder>/<name'>, name' being the name with ".png"
\* appended unless it already ends in it (case-insensitively), and a file
\* exists at the returned path.
C1_FileDeliverySuccess ==
    \A c \in Calls :
        (/\ Done(c)
         /\ req[c].kind = "file"
         /\ IsDir(AbsPath(req[c].folder), fs)
         /\ req[c].mmdc = MmdcOk)
        => LET n == req[c].name
               nPrime == IF EndsWith(LowerStr(n), PngSuffix) THEN n ELSE n \o PngSuffix
           IN  /\ out[c].type = "return"
               /\ out[c].path = PathJoin(AbsPath(req[c].folder), nPrime)
               /\ out[c].path \in DOMAIN fs

\* C2: a stream-delivery call whose renderer exits zero after writing bytes B
\* returns an image payload of media type image/png whose data is the base64
\* encoding of B.
C2_StreamDeliverySuccess ==
    \A c \in Calls :
        (/\ Done(c)
         /\ req[c].kind = "stream"
         /\ req[c].mmdc = MmdcOk
         /\ tmp_out[c] # NoPath
         /\ ~RemoveFailed(c))
        => /\ out[c].type = "return"
           /\ out[c].mime = "image/png"
           /\ out[c].data = B64Encode(PngBytes)

\* C3 (as claimed): after a stream-delivery call has returned or raised, on
\* whatever path, no file exists at the ephemeral output path it allocated.
C3_StreamCleanupAlways ==
    \A c \in Calls :
        (Done(c) /\ req[c].kind = "stream" /\ tmp_out[c] # NoPath)
        => tmp_out[c] \notin DOMAIN fs

\* C3 (amended): after a stream-delivery call has returned or raised, no file
\* exists at the ephemeral output path it allocated, unless the os.remove of
\* the cleanup step itself failed; then the file is left and that error is
\* what the call raises.
C3_StreamCleanup ==
    \A c \in Calls :
        (Done(c) /\ req[c].kind = "stream" /\ tmp_out[c] # NoPath)
        => IF RemoveFailed(c)
            THEN tmp_out[c] \in DOMAIN fs /\ out[c].exc.cls = "OSError"
            ELSE tmp_out[c] \notin DOMAIN fs

C3_Witness ==
    \E c \in Calls :
        /\ Done(c)
        /\ req[c].kind = "stream"
        /\ tmp_out[c] # NoPath
        /\ out[c].type = "raise"
        /\ ~RemoveFailed(c)
        /\ tmp_out[c] \notin DOMAIN fs

\* C4: once a render call that created a diagram-source temp file has
\* returned or raised, that file no longer exists, on every exit path after
\* its creation (the failing write of the source included).
C4_InputTempCleanup ==
    \A c \in Calls :
        (Done(c) /\ tmp_in[c] # NoPath /\ ~RemoveFailed(c))
        => tmp_in[c] \notin DOMAIN fs

\* C5: a file-delivery call whose folder does not exist fails with the error
\* naming the resolved folder and saying it does not exist; one whose folder
\* is a regular file fails with the error naming it and saying it is not a
\* directory; neither returns a value.
C5_DestinationValidation ==
    \A c \in Calls :
        (Done(c) /\ req[c].kind = "file")
        => LET dir == AbsPath(req[c].folder)
           IN  /\ ~Exists(dir, fs) =>
                    /\ out[c].type = "raise"
                    /\ out[c].exc.cls = "ValueError"
                    /\ out[c].exc.tag = "dir_missing"
                    /\ out[c].exc.path = dir
               /\ (Exists(dir, fs) /\ ~IsDir(dir, fs)) =>
                    /\ out[c].type = "raise"
                    /\ out[c].exc.cls = "ValueError"
                    /\ out[c].exc.tag = "not_dir"
                    /\ out[c].exc.path = dir

\* C6: when the renderer binary cannot be found, both tools fail with the
\* "mmdc command not found" error and leave no temp file of the call behind.
C6_RendererMissing ==
    \A c \in Calls :
        (/\ Done(c)
         /\ Handler(c)
         /\ req[c].mmdc = MmdcMissing
         /\ req[c].kind = "file" => IsDir(AbsPath(req[c].folder), fs)
         /\ req[c].kind = "stream" => tmp_out[c] # NoPath
         /\ ~RemoveFailed(c))
        => /\ out[c].type = "raise"
           /\ out[c].exc.cls = "ValueError"
           /\ out[c].exc.tag = "mmdc_not_found"
           /\ tmp_in[c] \notin DOMAIN fs
           /\ tmp_out[c] \notin DOMAIN fs

\* C7: when the renderer exits with a non-zero status, both tools fail with
\* the error that carries the exit code and the captured stdout and stderr
\* unchanged, and leave no temp file of the call behind.
C7_RendererNonZeroExit ==
    \A c \in Calls :
        (/\ Done(c)
         /\ Handler(c)
         /\ req[c].mmdc.found
         /\ req[c].mmdc.rc # 0
         /\ req[c].kind = "file" => IsDir(AbsPath(req[c].folder), fs)
         /\ req[c].kind = "stream" => tmp_out[c] # NoPath
         /\ ~RemoveFailed(c))
        => /\ out[c].type = "raise"
           /\ out[c].exc.cls = "ValueError"
           /\ out[c].exc.tag = "mmdc_failed"
           /\ out[c].exc.rc = req[c].mmdc.rc
           /\ out[c].exc.stdout = MmdcStdout(req[c].mmdc)
           /\ out[c].exc.stderr = MmdcStderr(req[c].mmdc)
           /\ tmp_in[c] \notin DOMAIN fs
           /\ tmp_out[c] \notin DOMAIN fs

\* C8: a render call returns a success value only if the renderer process
\* exited with status zero and wrote the output file at the target path.
C8_SuccessDefinition ==
    \A c \in Calls :
        (Done(c) /\ out[c].type = "return")
        => /\ proc[c].state = "exited"
           /\ proc[c].rc = 0
           /\ req[c].mmdc.writes
           /\ OutputPath(rargs[c]) \in DOMAIN fs

\* C9: every failure of a tool handler reaches the caller as a ValueError.
C9_UniformErrorKind ==
    \A c \in Calls :
        (Done(c) /\ Handler(c) /\ out[c].type = "raise")
        => out[c].exc.cls = "ValueError"

\* C10: no temp path is owned by two calls in flight at the same time, and a
\* temp file owned by a call in flight disappears only in a step of that call.
C10_TempIsolation ==
    /\ [](\A c, d \in Calls : c # d => Owned(c) \cap Owned(d) = {})
    /\ [][\A d \in Calls : \A p \in Owned(d) :
            (p \in DOMAIN fs /\ p \notin DOMAIN fs') => pc'[d] # pc[d]]_vars

C10_Witness ==
    \E c, d \in Calls :
        /\ c # d
        /\ req[c].kind = "stream"
        /\ req[d].kind = "render"
        /\ Owned(c) # {}
        /\ Owned(d) # {}
        /\ Owned(c) \cup Owned(d) \subseteq DOMAIN fs

\* C11: a file-delivery call never removes or alters the file at its
\* destination path: a step of the call other than the run of the renderer
\* removes or rewrites no file but the call's own diagram-source temp file,
\* and the output a renderer wrote is still there, unchanged, once the call
\* has returned or raised.
C11_OutputKept ==
    /\ [][\A c \in Calls :
            (req[c].kind # "stream" /\ pc'[c] # pc[c] /\ pc[c] # "r_wait")
            => \A p \in DOMAIN fs :
                (p \notin DOMAIN fs' \/ fs'[p] # fs[p]) => p = tmp_in[c]]_vars
    /\ [](\A c \in Calls :
            (/\ Done(c)
             /\ req[c].kind # "stream"
             /\ proc[c].state = "exited"
             /\ req[c].mmdc.writes)
            => /\ OutputPath(rargs[c]) \in DOMAIN fs
               /\ fs[OutputPath(rargs[c])] = PngBytes)

C11_Witness ==
    \E c \in Calls :
        /\ Done(c)
        /\ req[c].kind # "stream"
        /\ out[c].type = "raise"
        /\ out[c].exc.tag = "mmdc_failed"
        /\ OutputPath(rargs[c]) \in DOMAIN fs
        /\ tmp_in[c] \notin DOMAIN fs

\* C12: two successive file-delivery calls with the same arguments, the
\* folder existing and the renderer succeeding both times, return the same
\* path; the file at that path after the second call is the second render's
\* output; and no temp file of either call remains.
C12_FileDeliveryIdempotent ==
    (/\ Done(1) /\ Done(2)
     /\ req[1].kind = "file"
     /\ req[2] = req[1]
     /\ IsDir(AbsPath(req[1].folder), fs)
     /\ req[1].mmdc = MmdcOk)
    => /\ out[1].type = "return"
       /\ out[2].type = "return"
       /\ out[2].path = out[1].path
       /\ out[2].path \in DOMAIN fs
       /\ fs[out[2].path] = PngBytes
       /\ launched[2] # <<>>
       /\ \A c \in Calls : tmp_in[c] \notin DOMAIN fs

\* C13: the command a tool handler's call executes is exactly
\* mmdc -i <input temp path> -o <output path> -t <T>, followed by
\* -b <backgroundColor> if and only if the caller gave a background colour,
\* T being the caller's theme when one was given and "default" otherwise:
\* the theme and backgroundColor given to the handler reach the command line.
C13_ArgumentList ==
    \A c \in Calls :
        (/\ Done(c)
         /\ Handler(c)
         /\ req[c].kind = "file" => IsDir(AbsPath(req[c].folder), fs)
         /\ req[c].kind = "stream" => tmp_out[c] # NoPath)
        => /\ Len(launched[c]) = 1
           /\ LET cmd == launched[c][1]
                  T == IF req[c].theme = NONE THEN "default" ELSE req[c].theme
                  tail == IF req[c].bg = NONE
                            THEN <<>>
                            ELSE << <<"-b">>, <<req[c].bg>> >>
              IN  /\ Len(cmd) = 7 + Len(tail)
                  /\ SubSeq(cmd, 1, 3) = << <<"mmdc">>, <<"-i">>, tmp_in[c] >>
                  /\ cmd[4] = <<"-o">>
                  /\ SubSeq(cmd, 6, 7) = << <<"-t">>, <<T>> >>
                  /\ SubSeq(cmd, 8, Len(cmd)) = tail

\* C14: within one call the renderer process is started at most once,
\* whatever the outcome of that start: a call that has started the renderer
\* never starts it again.
C14_SingleAttempt ==
    /\ [](\A c \in Calls : Len(launched[c]) <= 1)
    /\ [][\A c \in Calls :
            launched'[c] # launched[c] => (launched[c] = <<>> \/ launched'[c] = <<>>)]_vars

C14_Witness ==
    \E c \in Calls :
        /\ Done(c)
        /\ proc[c].state \in {"notfound", "exited"}
        /\ out[c].type = "raise"
        /\ out[c].exc.tag \in {"mmdc_missing", "mmdc_failed"}
        /\ Len(launched[c]) = 1

\* C15: within one render call the renderer is started only once the temp
\* file named in its command holds the complete diagram source; the
\* ephemeral output is read only after the renderer has exited; and the call
\* removes a temp file of its own only in a cleanup step, which comes after
\* the renderer has finished, never while it is starting or running.
C15_LifecycleOrder ==
    [][\A c \in Calls :
        /\ (launched'[c] # launched[c] /\ launched'[c] # <<>>)
            => /\ tmp_in[c] \in DOMAIN fs
               /\ fs[tmp_in[c]] = rargs[c].code
               /\ launched'[c][1][3] = tmp_in[c]
               /\ proc[c].state = "none"
        /\ (pend'[c] # pend[c] /\ pend'[c].type = "return")
            => proc[c].state = "exited"
        /\ \A p \in Owned(c) :
            (p \in DOMAIN fs /\ p \notin DOMAIN fs' /\ pc'[c] # pc[c])
            => /\ pc[c] \in {"r_resume", "s_finally"}
               /\ proc[c].state # "running"]_vars

C15_Witness ==
    \E c \in Calls :
        /\ Done(c)
        /\ proc[c].state = "exited"
        /\ Len(launched[c]) = 1
        /\ launched[c][1][3] = tmp_in[c]
        /\ tmp_in[c] \notin DOMAIN fs
        /\ lost[c] = {}

\* C16: while a call is suspended waiting for its renderer process, the
\* event loop can still start the next call and take a step of every other
\* call in flight, so that calls wait for their renderers side by side and a
\* renderer that has not returned holds no other call back.
C16_NonBlocking ==
    \A c, d \in Calls :
        (c # d /\ pc[c] = "r_wait")
        => /\ (pc[d] = "idle" /\ \A e \in Calls : e < d => pc[e] # "idle")
                => ENABLED StartConc(d)
           /\ pc[d] \notin {"idle", "done"} => ENABLED Run(d)

C16_Witness ==
    \E c, d \in Calls :
        /\ c # d
        /\ pc[c] = "r_wait"
        /\ pc[d] = "r_wait"
        /\ proc[c].state = "running"
        /\ proc[d].state = "running"

\* C17: a call whose destination validation fails (folder missing or not a
\* directory) raises before it has created a temp file and before it has
\* started the renderer: the failing step changes no file and starts no
\* process, and the failed call has no temp file and no renderer run.
C17_ValidationFirst ==
    /\ [](\A c \in Calls :
            (/\ Done(c)
             /\ out[c].type = "raise"
             /\ out[c].exc.tag \in {"dir_missing", "not_dir"})
            => /\ tmp_in[c] = NoPath
               /\ launched[c] = <<>>
               /\ proc[c] = NoProc)
    /\ [](\A c \in Calls :
            (/\ Done(c)
             /\ req[c].kind # "stream"
             /\ ~IsDir(AbsPath(req[c].folder), fs))
            => /\ out[c].type = "raise"
               /\ tmp_in[c] = NoPath
               /\ launched[c] = <<>>)
    /\ [][\A c \in Calls :
            (/\ out'[c] # out[c]
             /\ out'[c].type = "raise"
             /\ out'[c].exc.tag \in {"dir_missing", "not_dir"})
            => fs' = fs /\ launched' = launched]_vars

C17_Witness ==
    \E c \in Calls :
        /\ Done(c)
        /\ out[c].type = "raise"
        /\ out[c].exc.cls = "ValueError"
        /\ out[c].exc.tag = "not_dir"
        /\ out[c].exc.path = <<"/", "f">>
        /\ tmp_in[c] = NoPath

\* C18: a tool handler raises the "mmdc command not found" error only when
\* starting the renderer process found no binary; a file-not-found condition
\* of any other step of the call is reported as an unexpected fault.
C18_NotFoundMeansNoBinary ==
    \A c \in Calls :
        (/\ Done(c)
         /\ Handler(c)
         /\ out[c].type = "raise"
         /\ out[c].exc.tag = "mmdc_not_found")
        => /\ proc[c].state = "notfound"
           /\ Len(launched[c]) = 1

\* C19: every started call can always take its next step until it has
\* returned or raised, so that under a fair scheduler and a renderer that
\* exits it completes; and once it has returned or raised every temp file it
\* created is deleted (a removal that itself failed aside).
C19_CompletesClean ==
    \A c \in Calls :
        /\ pc[c] \notin {"idle", "done"} => ENABLED Run(c)
        /\ (Done(c) /\ ~RemoveFailed(c) /\ lost[c] = {})
            => \A p \in {tmp_in[c], tmp_out[c]} \ {NoPath} : p \notin DOMAIN fs

\* under the fair scheduler every started call returns or raises
C19_Terminates == \A c \in Calls : (pc[c] # "idle") ~> Done(c)

\* C20: when a cleanup step runs and its path no longer exists (something
\* else removed it), the step raises nothing, changes no file and leaves the
\* outcome of the call as it was: the renderer's for the source temp file,
\* the handler's pending result for the ephemeral output.
C20_CleanupTolerant ==
    [][\A c \in Calls :
        /\ (pc[c] = "r_resume" /\ pc'[c] # pc[c] /\ tmp_in[c] \notin DOMAIN fs)
            => /\ fs' = fs
               /\ req[c].kind = "render"
                    => out'[c] = RenderTry(proc[c], OutputPath(rargs[c]))
        /\ (pc[c] = "s_finally" /\ pc'[c] # pc[c]
                /\ tmp_out[c] # NoPath /\ tmp_out[c] \notin DOMAIN fs)
            => /\ fs' = fs
               /\ out'[c] = pend[c]]_vars

C20_Witness ==
    \E c \in Calls :
        /\ Done(c)
        /\ req[c].kind = "render"
        /\ tmp_in[c] \in lost[c]
        /\ out[c].type = "return"
        /\ out[c].path = OutputPath(rargs[c])

\* the ephemeral output was gone when the stream handler's cleanup ran
C20_WitnessStream ==
    \E c \in Calls :
        /\ Done(c)
        /\ req[c].kind = "stream"
        /\ tmp_out[c] \in lost[c]
        /\ out[c] = pend[c]

====
